---- MODULE Spec2Model ----
(***************************************************************************)
(* Model of the index-card renderer of openmakersuite                      *)
(* (backend/index_cards/services.py, class IndexCardRenderer).             *)
(*                                                                         *)
(* Lengths are integers in hundredths of a PostScript point, so that       *)
(* every length the renderer computes from its constants is exact:         *)
(* 1 pt = 100, 1 inch = 72 pt = 7200.                                      *)
(* Strings are sequences of one-character strings.                         *)
(***************************************************************************)
EXTENDS Integers, Sequences, FiniteSets, TLC

(***************************************************************************)
(* Layout constants of IndexCardRenderer                                   *)
(***************************************************************************)
inch == 7200

PAGE_WIDTH == 61200
PAGE_HEIGHT == 79200
CARD_WIDTH == 5 * inch
CARD_HEIGHT == 3 * inch
TOP_MARGIN == 1 * inch
BOTTOM_MARGIN == 1 * inch
LEFT_MARGIN == (175 * inch) \div 100
RIGHT_MARGIN == (175 * inch) \div 100
CARD_GAP == inch \div 2
CARD_PADDING == (15 * inch) \div 100
IMAGE_MAX_WIDTH == 2 * inch
IMAGE_MAX_HEIGHT == 2 * inch
QR_CODE_SIZE == (8 * inch) \div 10
CARDS_PER_PAGE == 3

\* CALL_TO_ACTION.split("\n"): the two lines of the call to action.
CtaLineCount == 2

\* ParagraphStyle "CardTitle": fontSize 16, leading 18.
TitleLeading == 1800
\* ParagraphStyle "CardHighlight": fontName Helvetica-Bold, fontSize 11, leading 14.
HighlightFontSize == 11
HighlightLeading == 1400
\* PDFTextObject.setFont(name, size) without a leading sets leading = 1.2 * size,
\* which is the distance textLine() moves the cursor: 13.2 pt for size 11.
TextObjectLeading == (12 * HighlightFontSize * 100) \div 10

Min(a, b) == IF a <= b THEN a ELSE b
Max(a, b) == IF a >= b THEN a ELSE b

(***************************************************************************)
(* Strings                                                                 *)
(***************************************************************************)
IsSpace(c) == c \in {" ", "\t"}

RECURSIVE LStripSet(_, _)
\* str.lstrip(chars): drop every leading character that is in chars.
LStripSet(s, chars) ==
    IF s # <<>> /\ Head(s) \in chars THEN LStripSet(Tail(s), chars) ELSE s

RECURSIVE RStripSet(_, _)
RStripSet(s, chars) ==
    IF s # <<>> /\ s[Len(s)] \in chars
    THEN RStripSet(SubSeq(s, 1, Len(s) - 1), chars) ELSE s

\* str.strip(): drop leading and trailing whitespace.
Strip(s) == RStripSet(LStripSet(s, {" ", "\t"}), {" ", "\t"})

RECURSIVE SplitFrom(_, _, _)
SplitFrom(text, i, cur) ==
    IF i > Len(text)
    THEN (IF cur = <<>> THEN <<>> ELSE <<cur>>)
    ELSE IF IsSpace(text[i])
         THEN (IF cur = <<>> THEN SplitFrom(text, i + 1, <<>>)
                             ELSE <<cur>> \o SplitFrom(text, i + 1, <<>>))
         ELSE SplitFrom(text, i + 1, Append(cur, text[i]))

\* str.split(): the maximal runs of non-whitespace characters, in order.
Split(text) == SplitFrom(text, 1, <<>>)

DigitChar(d) == CASE d = 0 -> "0" [] d = 1 -> "1" [] d = 2 -> "2" [] d = 3 -> "3"
                  [] d = 4 -> "4" [] d = 5 -> "5" [] d = 6 -> "6" [] d = 7 -> "7"
                  [] d = 8 -> "8" [] d = 9 -> "9"

RECURSIVE IntToStr(_)
\* str(n) of a non-negative integer, as the f-strings format it.
IntToStr(n) ==
    IF n < 10 THEN <<DigitChar(n)>>
    ELSE Append(IntToStr(n \div 10), DigitChar(n % 10))

(***************************************************************************)
(* Font metrics: pdfmetrics.stringWidth for the standard font              *)
(* Helvetica-Bold is the sum of the glyph widths (in 1/1000 of the font    *)
(* size) times the size / 1000; there is no kerning.                       *)
(***************************************************************************)
CharWidth(c) ==
    CASE c \in {" ", "i", "l", "I", "j", "."} -> 278
      [] c \in {":", "t", "f", "-"} -> 333
      [] c = "r" -> 389
      [] c \in {"0", "1", "2", "3", "4", "5", "6", "7", "8", "9"} -> 556
      [] c \in {"a", "e", "s", "y", "c", "k", "v", "x"} -> 556
      [] c \in {"T", "g", "u", "n", "o", "d", "L", "b", "h", "p", "q", "F", "Z"} -> 611
      [] c \in {"R", "A", "B", "C", "D", "H", "K", "N", "U"} -> 722
      [] c = "m" -> 889
      [] c = "W" -> 944
      [] OTHER -> 556

RECURSIVE GlyphSum(_)
GlyphSum(s) == IF s = <<>> THEN 0 ELSE CharWidth(Head(s)) + GlyphSum(Tail(s))

\* stringWidth(s, font, size), in 1/1000 pt.
StringWidth(s, size) == GlyphSum(s) * size

(***************************************************************************)
(* _wrap_text                                                              *)
(***************************************************************************)
\* A mutant of WrapAccepts: measures the next word alone, not the candidate.
WrapAcceptsWordOnly(line, next_word, max_width, size) ==
    StringWidth(next_word, size) <= max_width * 10

\* The test of the loop: the candidate "line next_word" is at most max_width.
WrapAccepts(line, next_word, max_width, size) ==
    StringWidth(line \o <<" ">> \o next_word, size) <= max_width * 10

RECURSIVE WrapLoopDropsLine(_, _, _, _, _)
\* A mutant of WrapLoop: a full line is not appended before the next one starts.
WrapLoopDropsLine(words, line, lines, max_width, size) ==
    IF words = <<>> THEN Append(lines, line)
    ELSE LET next_word == Head(words) IN
         IF WrapAccepts(line, next_word, max_width, size)
         THEN WrapLoopDropsLine(Tail(words), line \o <<" ">> \o next_word, lines,
                                max_width, size)
         ELSE WrapLoopDropsLine(Tail(words), next_word, lines, max_width, size)

RECURSIVE WrapLoop(_, _, _, _, _)
WrapLoop(words, line, lines, max_width, size) ==
    IF words = <<>> THEN Append(lines, line)
    ELSE LET next_word == Head(words) IN
         IF WrapAccepts(line, next_word, max_width, size)
         THEN WrapLoop(Tail(words), line \o <<" ">> \o next_word, lines, max_width, size)
         ELSE WrapLoop(Tail(words), next_word, Append(lines, line), max_width, size)

WrapText(text, max_width, size) ==
    LET words == Split(text) IN
    IF words = <<>> THEN <<>>
    ELSE WrapLoop(Tail(words), Head(words), <<>>, max_width, size)

(***************************************************************************)
(* _pluralize                                                              *)
(***************************************************************************)
EndsWith(w, suffix) ==
    /\ Len(w) >= Len(suffix)
    /\ SubSeq(w, Len(w) - Len(suffix) + 1, Len(w)) = suffix

\* A mutant of Pluralize: the singular is used for every count up to 1, so
\* also for 0.
PluralizeZeroSingular(count, word) ==
    IF count <= 1 THEN IntToStr(count) \o <<" ">> \o word
    ELSE IntToStr(count) \o <<" ">> \o word \o <<"s">>

Pluralize(count, word) ==
    IF count = 1 THEN IntToStr(count) \o <<" ">> \o word
    ELSE LET plural ==
               IF EndsWith(word, <<"y">>) /\ Len(word) > 1
                  /\ word[Len(word) - 1] \notin {"a", "e", "i", "o", "u"}
               THEN SubSeq(word, 1, Len(word) - 1) \o <<"i", "e", "s">>
               ELSE IF EndsWith(word, <<"y">>) THEN word \o <<"s">>
               ELSE IF \/ EndsWith(word, <<"s">>) \/ EndsWith(word, <<"s", "h">>)
                       \/ EndsWith(word, <<"c", "h">>) \/ EndsWith(word, <<"x">>)
                       \/ EndsWith(word, <<"z">>)
               THEN word \o <<"e", "s">>
               ELSE word \o <<"s">>
         IN IntToStr(count) \o <<" ">> \o plural

(***************************************************************************)
(* _get_contrast_text_color                                                *)
(***************************************************************************)
HexDigits == {"0", "1", "2", "3", "4", "5", "6", "7", "8", "9",
              "a", "b", "c", "d", "e", "f", "A", "B", "C", "D", "E", "F"}

HexVal(c) ==
    CASE c = "0" -> 0 [] c = "1" -> 1 [] c = "2" -> 2 [] c = "3" -> 3 [] c = "4" -> 4
      [] c = "5" -> 5 [] c = "6" -> 6 [] c = "7" -> 7 [] c = "8" -> 8 [] c = "9" -> 9
      [] c \in {"a", "A"} -> 10 [] c \in {"b", "B"} -> 11 [] c \in {"c", "C"} -> 12
      [] c \in {"d", "D"} -> 13 [] c \in {"e", "E"} -> 14 [] c \in {"f", "F"} -> 15

DecDigits == {"0", "1", "2", "3", "4", "5", "6", "7", "8", "9"}

RECURSIVE ParseDigits(_, _, _, _, _)
\* The digits of an integer literal from position i on: digits of the base with
\* single underscores between them. <<v>>, or <<>> for ValueError.
ParseDigits(t, i, base, acc, needDigit) ==
    IF i > Len(t) THEN (IF needDigit THEN <<>> ELSE <<acc>>)
    ELSE IF t[i] = "_"
         THEN (IF needDigit THEN <<>> ELSE ParseDigits(t, i + 1, base, acc, TRUE))
    ELSE IF t[i] \in (IF base = 16 THEN HexDigits ELSE DecDigits)
         THEN ParseDigits(t, i + 1, base, acc * base + HexVal(t[i]), FALSE)
    ELSE <<>>

\* The literal without its sign, and the sign.
Unsigned(t) == IF t # <<>> /\ t[1] \in {"+", "-"} THEN Tail(t) ELSE t
SignOf(t) == IF t # <<>> /\ t[1] = "-" THEN 0 - 1 ELSE 1

\* The literal without a 0x prefix (base 16 only), which an underscore may follow.
Unprefixed(u, base) ==
    IF base = 16 /\ Len(u) >= 2 /\ u[1] = "0" /\ u[2] \in {"x", "X"}
    THEN (IF Len(u) >= 3 /\ u[3] = "_" THEN SubSeq(u, 4, Len(u)) ELSE SubSeq(u, 3, Len(u)))
    ELSE u

WithSign(sign, r) == IF r = <<>> THEN <<>> ELSE <<sign * r[1]>>

PyIntStripped(t, base) ==
    WithSign(SignOf(t), ParseDigits(Unprefixed(Unsigned(t), base), 1, base, 0, TRUE))

\* Python's int(s, base) for base 10 or 16: <<v>>, or <<>> for ValueError.
\* Whitespace around the literal is stripped, a sign is accepted, and base 16
\* accepts a 0x prefix.
PyInt(s, base) == PyIntStripped(Strip(s), base)

\* luminance > 0.5 as IEEE-754 doubles evaluate
\* (0.299 * r + 0.587 * g + 0.114 * b) / 255 > 0.5: it agrees with the exact
\* 299 r + 587 g + 114 b > 127500 for all r, g, b in -15..255 but (218, 58, 248),
\* whose exact luminance is 0.5 and whose computed one is 0.5000000000000001.
LuminanceAboveHalf(r, g, b) ==
    \/ 299 * r + 587 * g + 114 * b > 127500
    \/ <<r, g, b>> = <<218, 58, 248>>

\* The decision once r, g and b are parsed (<<>> where int() raised ValueError).
ContrastOfChannels(r, g, b) ==
    IF r = <<>> \/ g = <<>> \/ b = <<>> THEN "white"
    ELSE IF LuminanceAboveHalf(r[1], g[1], b[1]) THEN "black" ELSE "white"

ContrastOfClean(clean_hex) ==
    IF Len(clean_hex) # 6 THEN "white"
    ELSE ContrastOfChannels(PyInt(SubSeq(clean_hex, 1, 2), 16),
                            PyInt(SubSeq(clean_hex, 3, 4), 16),
                            PyInt(SubSeq(clean_hex, 5, 6), 16))

\* clean_hex = hex_color.strip().lstrip("#")
GetContrastTextColor(hex_color) == ContrastOfClean(LStripSet(Strip(hex_color), {"#"}))

(***************************************************************************)
(* reportlab.lib.colors.HexColor                                           *)
(***************************************************************************)
HasHash(val) == val # <<>> /\ val[1] = "#"
Has0x(val) == Len(val) >= 2 /\ val[1] = "0" /\ val[2] \in {"x", "X"}

LowBytes(n) == IF n = <<>> THEN <<>> ELSE <<n[1] % 16777216>>

\* HexColor(val): <<rgb>> with rgb = 65536 r + 256 g + b, or <<>> for ValueError.
\* A leading '#' selects base 16; without it the string is read in base 16 only
\* behind a 0x prefix and in base 10 otherwise. The channels are the low three
\* bytes of the integer.
HexColor(val) ==
    LowBytes(PyInt(IF HasHash(val) THEN Tail(val)
                   ELSE IF Has0x(val) THEN Tail(Tail(val)) ELSE val,
                   IF HasHash(val) \/ Has0x(val) THEN 16 ELSE 10))

\* HexColor("#2563eb"), the default brand colour.
DefaultBrandColor == 2450411

(***************************************************************************)
(* Draw commands. A card is drawn as a sequence of commands:               *)
(*   op    roundRect, rect, drawImage or text                              *)
(*   kind  border, cta, frame, qr, photo, title, info, ctaText, category   *)
(*   x, y, w, h   the rectangle, or the text position with w = h = 0       *)
(*   color the stroke / fill colour as 65536 r + 256 g + b, NoColor if the *)
(*         command sets none                                               *)
(*   data  the text drawn, or <<id>> of the item a QR code encodes         *)
(***************************************************************************)
NoColor == 0 - 1
Black == 0
White == 16777215
Gray == 8421504

Cmd(op, kind, x, y, w, h, color, data) ==
    [op |-> op, kind |-> kind, x |-> x, y |-> y, w |-> w, h |-> h,
     color |-> color, data |-> data]

CmdsOfKind(cmds, kind) == {i \in DOMAIN cmds : cmds[i].kind = kind}

(***************************************************************************)
(* _draw_blank_card                                                        *)
(***************************************************************************)
DrawBlankCard(item, origin_x, origin_y) ==
    LET qr_x == origin_x + (CARD_WIDTH - QR_CODE_SIZE) \div 2
        qr_y == origin_y + (CARD_HEIGHT - QR_CODE_SIZE) \div 2
    IN <<Cmd("drawImage", "qr", qr_x, qr_y, QR_CODE_SIZE, QR_CODE_SIZE,
             NoColor, <<item.id>>)>>

(***************************************************************************)
(* _draw_title_section. item.titleLines is the number of lines into which  *)
(* Paragraph(item.name, CardTitle) breaks the name at the available width; *)
(* Paragraph.wrap(availWidth, availHeight) returns that number times the   *)
(* leading as the height, whatever availHeight is, and drawOn draws every  *)
(* line.                                                                   *)
(***************************************************************************)
\* The height budget handed to title_para.wrap: 0.4 inch.
TitleBudget == (4 * inch) \div 10

TitleHeight(item) == item.titleLines * TitleLeading

\* title_para.drawOn(pdf_canvas, inner_x, current_y - title_height): line k
\* (from 1) fills the band of one leading whose bottom is k leadings below the top.
DrawTitle(item, inner_x, origin_y) ==
    LET current_y == origin_y + CARD_HEIGHT - CARD_PADDING IN
    [k \in 1..item.titleLines |->
        Cmd("text", "title", inner_x, current_y - k * TitleLeading, 0, 0,
            2042167, <<>>)]

\* The y position _draw_title_section returns.
TitleSectionY(item, origin_y) ==
    origin_y + CARD_HEIGHT - CARD_PADDING - TitleHeight(item) - (3 * inch) \div 10

(***************************************************************************)
(* _draw_info_lines                                                        *)
(***************************************************************************)
\* The boundary _draw_info_lines computes, from the text origin it is given.
InfoCardBottom(origin_y) == origin_y - CARD_HEIGHT + 2 * CARD_PADDING

RECURSIVE InfoFragments(_, _, _, _, _)
\* The inner loop over the fragments of one wrapped line: each is written with
\* textLine, which moves the text cursor down by the text object's leading,
\* while the tracked origin_y moves by the style's leading.
\* st = [y |-> tracked origin_y, n |-> fragments written, out |-> commands].
InfoFragments(frags, st, origin_x, text_y, card_bottom) ==
    IF frags = <<>> THEN st
    ELSE LET c == Cmd("text", "info", origin_x, text_y - st.n * TextObjectLeading,
                      0, 0, NoColor, Head(frags))
             st2 == [y |-> st.y - HighlightLeading, n |-> st.n + 1,
                     out |-> Append(st.out, c)]
         IN IF st2.y < card_bottom + 1000 THEN st2
            ELSE InfoFragments(Tail(frags), st2, origin_x, text_y, card_bottom)

RECURSIVE InfoLines(_, _, _, _, _, _)
InfoLines(lines, st, origin_x, text_y, max_width, card_bottom) ==
    IF lines = <<>> THEN st
    ELSE IF Head(lines) = <<>>
         THEN InfoLines(Tail(lines), st, origin_x, text_y, max_width, card_bottom)
    ELSE IF st.y - HighlightLeading < card_bottom + 1000 THEN st
    ELSE InfoLines(Tail(lines),
                   InfoFragments(WrapText(Head(lines), max_width, HighlightFontSize),
                                 st, origin_x, text_y, card_bottom),
                   origin_x, text_y, max_width, card_bottom)

DrawInfoLines(lines, origin_x, origin_y, max_width) ==
    LET card_bottom == InfoCardBottom(origin_y) IN
    IF origin_y < card_bottom + 2000 THEN <<>>
    ELSE InfoLines(lines, [y |-> origin_y, n |-> 0, out |-> <<>>],
                   origin_x, origin_y, max_width, card_bottom).out

\* _calculate_desired_stock
CalculateDesiredStock(item) ==
    Max(item.minimum_stock + item.reorder_quantity, item.reorder_quantity)

\* The stat lines of _draw_left_section.
InfoLinesOf(item) ==
    LET unit == <<"u", "n", "i", "t">>
        day == <<"d", "a", "y">>
        base == << <<"T", "a", "r", "g", "e", "t", ":", " ">>
                      \o Pluralize(CalculateDesiredStock(item), unit),
                   <<"R", "e", "o", "r", "d", "e", "r", ":", " ">>
                      \o Pluralize(item.reorder_quantity, unit) >>
    IN IF item.lead # 0
       THEN Append(base, <<"L", "e", "a", "d", ":", " ">> \o Pluralize(item.lead, day))
       ELSE base

(***************************************************************************)
(* _draw_product_image. item.image is <<>> when the item has no photo file *)
(* and <<w, h>>, the photo's size in points, when it has one. Drawn sizes  *)
(* are rounded down to 1/100 pt.                                           *)
(***************************************************************************)
DrawProductImage(item, left_section_x, left_section_width, image_y_start, inner_y) ==
    LET iw == item.image[1] * 100
        ih == item.image[2] * 100
        available_image_space == image_y_start - inner_y - (3 * inch) \div 10
        max_image_width == left_section_width - (2 * inch) \div 10
        \* scale = min(max_image_width / iw, available_image_space / ih, 1) = sn / sd
        byWidth == max_image_width * ih <= available_image_space * iw
        sn == IF byWidth THEN Min(max_image_width, iw) ELSE Min(available_image_space, ih)
        sd == IF byWidth THEN iw ELSE ih
        image_drawn_width == (iw * sn) \div sd
        image_drawn_height == (ih * sn) \div sd
        image_x == left_section_x + (left_section_width - image_drawn_width) \div 2
        image_y == image_y_start - image_drawn_height
    IN IF available_image_space > 0
       THEN <<Cmd("drawImage", "photo", image_x, image_y, image_drawn_width,
                  image_drawn_height, NoColor, <<>>)>>
       ELSE <<>>

(***************************************************************************)
(* _draw_left_section                                                      *)
(***************************************************************************)
DrawLeftSection(item, left_section_x, left_section_width, current_y, inner_y) ==
    LET info_lines == InfoLinesOf(item)
        info_y == current_y - inch \div 10
        info_lines_height == Len(info_lines) * HighlightLeading
        image_y_start == info_y - info_lines_height - inch \div 10
    IN DrawInfoLines(info_lines, left_section_x, info_y, left_section_width - inch \div 10)
       \o (IF item.image # <<>>
           THEN DrawProductImage(item, left_section_x, left_section_width,
                                 image_y_start, inner_y)
           ELSE <<>>)

(***************************************************************************)
(* _calculate_cta_dimensions                                               *)
(***************************************************************************)
CalculateCtaDimensions(item, right_section_width, current_y, inner_y) ==
    LET padding_vertical == 300
        box_height0 == CtaLineCount * 1000 + 2 * padding_vertical
        box_width == right_section_width - (2 * inch) \div 10
        category_space == IF item.hasCategory THEN (25 * inch) \div 100 ELSE inch \div 10
        total_right_height == current_y - inner_y - category_space
        qr_and_cta_height == QR_CODE_SIZE + inch \div 10 + box_height0
        fits == qr_and_cta_height <= total_right_height
        qr_y_adjusted == IF fits THEN current_y - QR_CODE_SIZE
                         ELSE current_y - QR_CODE_SIZE + (5 * inch) \div 100
        box_y0 == IF fits THEN qr_y_adjusted - inch \div 10 - box_height0
                  ELSE qr_y_adjusted - (5 * inch) \div 100 - box_height0
        min_box_y == inner_y + category_space
        clamped == box_y0 < min_box_y
        box_y == IF clamped THEN min_box_y ELSE box_y0
        shrink == clamped /\ box_y + box_height0 > qr_y_adjusted - (2 * inch) \div 100
        line_height == IF shrink THEN 800 ELSE 1000
    IN [qr_y |-> qr_y_adjusted, y |-> box_y, width |-> box_width,
        height |-> CtaLineCount * line_height + 2 * padding_vertical,
        line_height |-> line_height, padding |-> padding_vertical]

\* item.category.color if item.category and item.category.color else "#2563eb"
CategoryColorOrDefault(item) ==
    IF item.hasCategory /\ item.color # <<>> THEN item.color
    ELSE <<"#", "2", "5", "6", "3", "e", "b">>

(***************************************************************************)
(* _draw_qr_code_with_frame                                                *)
(***************************************************************************)
\* The frame, given the parsed frame colour (<<>> where HexColor raised).
QrFrame(item, qr_x, qr_y, is_light_color, frame_color) ==
    IF is_light_color /\ item.hasCategory /\ item.color # <<>> /\ frame_color # <<>>
    THEN <<Cmd("rect", "frame", qr_x - (5 * inch) \div 100, qr_y - (5 * inch) \div 100,
               QR_CODE_SIZE + 2 * ((5 * inch) \div 100),
               QR_CODE_SIZE + 2 * ((5 * inch) \div 100), frame_color[1], <<>>)>>
    ELSE <<>>

\* A mutant of QrAt: the QR image is left out, only the frame is drawn.
QrAtFrameOnly(item, qr_x, qr_y, category_color) ==
    QrFrame(item, qr_x, qr_y, GetContrastTextColor(category_color) = "black",
            HexColor(Strip(category_color)))

\* The frame, where there is one, and then the QR image.
QrAt(item, qr_x, qr_y, category_color) ==
    QrFrame(item, qr_x, qr_y, GetContrastTextColor(category_color) = "black",
            HexColor(Strip(category_color)))
    \o <<Cmd("drawImage", "qr", qr_x, qr_y, QR_CODE_SIZE, QR_CODE_SIZE,
             NoColor, <<item.id>>)>>

DrawQrCodeWithFrame(item, right_section_x, right_section_width, qr_y) ==
    QrAt(item, right_section_x + (right_section_width - QR_CODE_SIZE) \div 2, qr_y,
         CategoryColorOrDefault(item))

(***************************************************************************)
(* _draw_cta_box                                                           *)
(***************************************************************************)
ColorOfName(name) == IF name = "black" THEN Black ELSE White

\* bg_color, given the parsed category colour (<<>> where HexColor raised).
CtaBackground(item, parsed) ==
    IF item.hasCategory /\ item.color # <<>> /\ Strip(item.color) # <<>> /\ parsed # <<>>
    THEN parsed[1] ELSE DefaultBrandColor

CtaCommands(right_section_x, right_section_width, cta_box, bg_color, text_color) ==
    <<Cmd("roundRect", "cta", right_section_x + (5 * inch) \div 100, cta_box.y,
          cta_box.width, cta_box.height, bg_color, <<>>)>>
    \o [k \in 1..CtaLineCount |->
          Cmd("text", "ctaText", right_section_x + right_section_width \div 2,
              cta_box.y + cta_box.height - cta_box.padding - 800
                  - (k - 1) * cta_box.line_height,
              0, 0, text_color, <<>>)]

DrawCtaBox(item, right_section_x, right_section_width, cta_box) ==
    CtaCommands(right_section_x, right_section_width, cta_box,
                CtaBackground(item, HexColor(Strip(item.color))),
                ColorOfName(GetContrastTextColor(CategoryColorOrDefault(item))))

\* _draw_right_section
DrawRightSection(item, right_section_x, right_section_width, current_y, inner_y) ==
    LET cta_box == CalculateCtaDimensions(item, right_section_width, current_y, inner_y)
    IN DrawQrCodeWithFrame(item, right_section_x, right_section_width, cta_box.qr_y)
       \o DrawCtaBox(item, right_section_x, right_section_width, cta_box)

(***************************************************************************)
(* _draw_category_section                                                  *)
(***************************************************************************)
\* The label's colour, given the parsed category colour.
CategoryFill(item, is_light_color, parsed) ==
    IF ~is_light_color /\ item.color # <<>> /\ Strip(item.color) # <<>> /\ parsed # <<>>
    THEN parsed[1] ELSE Gray

DrawCategorySection(item, inner_x, inner_y) ==
    IF ~item.hasCategory THEN <<>>
    ELSE <<Cmd("text", "category", inner_x, inner_y + (5 * inch) \div 100, 0, 0,
               CategoryFill(item, GetContrastTextColor(CategoryColorOrDefault(item)) = "black",
                            HexColor(Strip(item.color))),
               <<>>)>>

(***************************************************************************)
(* _draw_detailed_card, _draw_card                                         *)
(***************************************************************************)
DrawDetailedCard(item, origin_x, origin_y) ==
    LET inner_x == origin_x + CARD_PADDING
        inner_y == origin_y + CARD_PADDING
        left_section_width == (CARD_WIDTH * 6) \div 10
        right_section_width == (CARD_WIDTH * 4) \div 10
        left_section_x == inner_x
        right_section_x == inner_x + left_section_width
        current_y == TitleSectionY(item, origin_y)
    IN DrawTitle(item, inner_x, origin_y)
       \o DrawLeftSection(item, left_section_x, left_section_width, current_y, inner_y)
       \o DrawRightSection(item, right_section_x, right_section_width, current_y, inner_y)
       \o DrawCategorySection(item, inner_x, inner_y)

Border(origin_x, origin_y) ==
    Cmd("roundRect", "border", origin_x, origin_y, CARD_WIDTH, CARD_HEIGHT, NoColor, <<>>)

\* A mutant of DrawCard: the blank branch falls through to the detailed card.
DrawCardFallThrough(blank_cards, item, origin_x, origin_y) ==
    <<Border(origin_x, origin_y)>>
    \o (IF blank_cards THEN DrawBlankCard(item, origin_x, origin_y) ELSE <<>>)
    \o DrawDetailedCard(item, origin_x, origin_y)

\* _draw_card with self.blank_cards = blank_cards at the time of the call.
DrawCard(blank_cards, item, origin_x, origin_y) ==
    <<Border(origin_x, origin_y)>>
    \o (IF blank_cards THEN DrawBlankCard(item, origin_x, origin_y)
        ELSE DrawDetailedCard(item, origin_x, origin_y))

(***************************************************************************)
(* _draw_page, _chunk                                                      *)
(***************************************************************************)
\* A mutant of AdjustedGap: the nominal gap is used although three cards and two
\* gaps do not fit between the margins.
AdjustedGapNominal == CARD_GAP

AdjustedGap ==
    LET available_height == PAGE_HEIGHT - TOP_MARGIN - BOTTOM_MARGIN
        total_cards_height == 3 * CARD_HEIGHT
        total_gap_height == 2 * CARD_GAP
    IN IF total_cards_height + total_gap_height > available_height
       THEN (available_height - total_cards_height) \div 2
       ELSE CARD_GAP

\* positions[i] for i = 0, 1, 2
Position(i) ==
    [x |-> LEFT_MARGIN,
     y |-> PAGE_HEIGHT - TOP_MARGIN - CARD_HEIGHT - i * (CARD_HEIGHT + AdjustedGap)]

\* sequence[index : index + size] for a 0-based index: slices stop at the end.
Slice(sequence, index, size) ==
    SubSeq(sequence, index + 1, Min(index + size, Len(sequence)))

RECURSIVE ChunkFromOverlap(_, _, _)
\* A mutant of ChunkFrom: the index advances by size - 1, so chunks overlap.
ChunkFromOverlap(sequence, index, size) ==
    IF index >= Len(sequence) THEN <<>>
    ELSE <<Slice(sequence, index, size)>> \o ChunkFromOverlap(sequence, index + size - 1, size)

RECURSIVE ChunkFrom(_, _, _)
\* for index in range(index, len(sequence), size): yield sequence[index:index+size]
ChunkFrom(sequence, index, size) ==
    IF index >= Len(sequence) THEN <<>>
    ELSE <<Slice(sequence, index, size)>> \o ChunkFrom(sequence, index + size, size)

Chunk(sequence, size) == ChunkFrom(sequence, 0, size)

(***************************************************************************)
(* _normalize_filename                                                     *)
(***************************************************************************)
LowerChar(c) ==
    CASE c = "P" -> "p" [] c = "D" -> "d" [] c = "F" -> "f" [] c = "C" -> "c"
      [] OTHER -> c

Lower(s) == [i \in DOMAIN s |-> LowerChar(s[i])]

DotPdf == <<".", "p", "d", "f">>

RECURSIVE ReplaceAll(_, _, _)
\* str.replace(old, new): every non-overlapping occurrence, left to right.
ReplaceAll(s, old, new) ==
    IF Len(s) < Len(old) THEN s
    ELSE IF SubSeq(s, 1, Len(old)) = old
         THEN new \o ReplaceAll(SubSeq(s, Len(old) + 1, Len(s)), old, new)
    ELSE <<Head(s)>> \o ReplaceAll(Tail(s), old, new)

\* The name for a request without a filename, index_cards_<timestamp>.pdf; the
\* model keeps one timestamp.
TimestampName == <<"i", "c", "_", "0">> \o DotPdf

NormalizeFilename(filename) ==
    IF filename # <<>>
    THEN LET clean == Strip(ReplaceAll(filename, <<" ">>, <<"_">>)) IN
         IF EndsWith(Lower(clean), DotPdf) THEN clean ELSE clean \o DotPdf
    ELSE TimestampName

\* The name render_batch_to_storage stores under.
BatchName(filename, blank_cards) ==
    IF blank_cards
    THEN ReplaceAll(NormalizeFilename(filename), DotPdf, <<"_", "b", "l", "a", "n", "k">> \o DotPdf)
    ELSE NormalizeFilename(filename)

(***************************************************************************)
(* The renderer as a state machine                                         *)
(*                                                                         *)
(* One IndexCardRenderer instance, used by the calls of Threads. Its only  *)
(* mutable attribute is blank_cards. A call advances in steps: the         *)
(* assignments to self.blank_cards, one step per card drawn (each reads    *)
(* self.blank_cards in _draw_card), the end of the rendering and, for a    *)
(* batch, the write to the storage.                                        *)
(***************************************************************************)
VARIABLES
    blank_cards,   \* self.blank_cards of the renderer instance
    call,          \* call[t]: the render call thread t is executing
    storage,       \* default_storage: name under index_cards/ -> stored PDF
    ref,           \* a remembered earlier call and its result (history)
    arg,           \* the input of a pure function under check
    res,           \* its result
    db,            \* the database rows the API handlers read and write
    req,           \* req[t]: the API request thread t is handling, step by step
    last           \* the last completed API request and what it found (history)

vars == <<blank_cards, call, storage, ref, arg, res, db, req, last>>

\* The variables of the API handlers, which the renderer never touches.
dbvars == <<db, req, last>>

\* The renderer is exercised without any API request in progress.
NoRequests == db = <<>> /\ req = <<>> /\ last = <<>>

Threads == {1, 2}

\* Bounds of the model.
MaxItems == 7        \* items of a single render_to_bytes call (SpecPages)
MaxSeqItems == 1     \* items per call in the sequential machine (Spec)
MaxConcItems == 1    \* items per call in the concurrent machine (SpecConc)

ItemIds == {"A", "B"}

\* The inventory items of the database the calls render.
ItemDB(id) ==
    IF id = "A"
    THEN [id |-> "A", titleLines |-> 1, reorder_quantity |-> 5, minimum_stock |-> 3,
          lead |-> 0, hasCategory |-> FALSE, color |-> <<>>, image |-> <<>>]
    ELSE [id |-> "B", titleLines |-> 2, reorder_quantity |-> 1, minimum_stock |-> 0,
          lead |-> 7, hasCategory |-> TRUE,
          color |-> <<"#", "F", "F", "F", "F", "0", "0">>, image |-> <<300, 200>>]

SeqsUpTo(S, n) == UNION {[1..k -> S] : k \in 0..n}

FileNames == {<<"c">>}

Idle == [pc |-> "idle", op |-> "none", items |-> <<>>, blank |-> FALSE,
         filename |-> <<>>, chunk |-> 1, index |-> 1, page |-> <<>>, pages |-> <<>>,
         result |-> "none", path |-> <<>>]

NoRef == [op |-> "none", items |-> <<>>, blank |-> FALSE, pages |-> <<>>]

\* The state after IndexCardRenderer(blank_cards=...) is constructed.
InitRenderer ==
    /\ blank_cards \in BOOLEAN
    /\ call = [t \in Threads |-> Idle]
    /\ storage = <<>>
    /\ ref = NoRef
    /\ arg = <<>>
    /\ res = <<>>
    /\ NoRequests

StartCall(t, op, items, blank, filename) ==
    /\ call[t].pc = "idle"
    /\ call' = [call EXCEPT ![t] = [Idle EXCEPT !.pc = "start", !.op = op,
                                    !.items = items, !.blank = blank,
                                    !.filename = filename]]
    /\ UNCHANGED <<blank_cards, storage, ref, arg, res, dbvars>>

\* A caller invokes render_preview(item, blank_card).
CallPreview(t) ==
    \E id \in ItemIds, b \in BOOLEAN : StartCall(t, "render_preview", <<id>>, b, <<>>)

\* A caller invokes render_to_bytes(items, blank_cards).
CallToBytes(t, maxLen) ==
    \E items \in SeqsUpTo(ItemIds, maxLen), b \in BOOLEAN :
        StartCall(t, "render_to_bytes", items, b, <<>>)

\* A caller invokes render_batch_to_storage(items, filename, blank_cards).
CallBatch(t, maxLen) ==
    \E items \in SeqsUpTo(ItemIds, maxLen), b \in BOOLEAN, f \in FileNames :
        StartCall(t, "render_batch_to_storage", items, b, f)

\* A mutant of FlagOnEntry: the flag, once set, stays set
\* (self.blank_cards = self.blank_cards or blank_cards).
FlagOnEntrySticky(old, blank) == old \/ blank

\* self.blank_cards = blank_card(s), the first statement of render_preview and
\* render_to_bytes, and the one after the emptiness test of render_batch_to_storage.
FlagOnEntry(old, blank) == blank

\* render_batch_to_storage calls self.render_to_bytes(items): blank_cards takes
\* its default, False, which render_to_bytes assigns to self.blank_cards.
FlagOfInnerRender(blank) == FALSE

\* The first step of a call.
Enter(t) ==
    /\ call[t].pc = "start"
    /\ IF call[t].op = "render_batch_to_storage"
       THEN IF call[t].items = <<>>
            THEN /\ call' = [call EXCEPT ![t].pc = "done", ![t].result = "ValueError"]
                 /\ UNCHANGED blank_cards
            ELSE /\ blank_cards' = FlagOnEntry(blank_cards, call[t].blank)
                 /\ call' = [call EXCEPT ![t].pc = "inner"]
       ELSE /\ blank_cards' = FlagOnEntry(blank_cards, call[t].blank)
            /\ call' = [call EXCEPT ![t].pc = "draw"]
    /\ UNCHANGED <<storage, ref, arg, res, dbvars>>

\* render_batch_to_storage: pdf_bytes = self.render_to_bytes(items), up to the
\* assignment to self.blank_cards.
EnterInner(t) ==
    /\ call[t].pc = "inner"
    /\ blank_cards' = FlagOfInnerRender(call[t].blank)
    /\ call' = [call EXCEPT ![t].pc = "draw"]
    /\ UNCHANGED <<storage, ref, arg, res, dbvars>>

\* A drawn card: the item, and the commands _draw_card emitted for it.
Card(blank, id, i) ==
    [item |-> id, cmds |-> DrawCard(blank, ItemDB(id), Position(i).x, Position(i).y)]

\* _render_to_canvas / _draw_page: draw the next card of the current chunk; after
\* the last card of the chunk (items[:3]) the page is closed with showPage().
DrawNext(t) ==
    LET c == call[t]
        chunks == Chunk(c.items, CARDS_PER_PAGE)
        page_items == SubSeq(chunks[c.chunk], 1, Min(3, Len(chunks[c.chunk])))
        drawn == Append(c.page, Card(blank_cards, page_items[c.index], c.index - 1))
    IN /\ c.pc = "draw"
       /\ c.chunk <= Len(chunks)
       /\ IF c.index < Len(page_items)
          THEN call' = [call EXCEPT ![t].page = drawn, ![t].index = c.index + 1]
          ELSE call' = [call EXCEPT ![t].page = <<>>, ![t].index = 1,
                                    ![t].chunk = c.chunk + 1,
                                    ![t].pages = Append(c.pages, drawn)]
       /\ UNCHANGED <<blank_cards, storage, ref, arg, res, dbvars>>

\* pdf_canvas.save(); the bytes are returned, or handed to the batch's save.
FinishRender(t) ==
    LET c == call[t] IN
    /\ c.pc = "draw"
    /\ c.chunk > Len(Chunk(c.items, CARDS_PER_PAGE))
    /\ IF c.op = "render_batch_to_storage"
       THEN call' = [call EXCEPT ![t].pc = "save"]
       ELSE call' = [call EXCEPT ![t].pc = "done", ![t].result = "bytes"]
    /\ UNCHANGED <<blank_cards, storage, ref, arg, res, dbvars>>

\* render_batch_to_storage: delete an existing file of that name, save the PDF.
Save(t) ==
    LET c == call[t]
        name == BatchName(c.filename, c.blank)
    IN /\ c.pc = "save"
       /\ storage' = [n \in DOMAIN storage \cup {name} |->
                         IF n = name THEN c.pages ELSE storage[n]]
       /\ call' = [call EXCEPT ![t].pc = "done", ![t].result = "stored",
                                 ![t].path = name]
       /\ UNCHANGED <<blank_cards, ref, arg, res, dbvars>>

\* The same three storage calls as steps of their own, for callers that run
\* side by side. default_storage.exists(storage_str):
StorageExists(t) ==
    /\ call[t].pc = "save"
    /\ call' = [call EXCEPT ![t].pc =
                    IF BatchName(call[t].filename, call[t].blank) \in DOMAIN storage
                    THEN "delete" ELSE "store"]
    /\ UNCHANGED <<blank_cards, storage, ref, arg, res, dbvars>>

\* default_storage.delete(storage_str); a file already gone is no error.
StorageDelete(t) ==
    /\ call[t].pc = "delete"
    /\ storage' = [n \in DOMAIN storage \ {BatchName(call[t].filename, call[t].blank)} |->
                      storage[n]]
    /\ call' = [call EXCEPT ![t].pc = "store"]
    /\ UNCHANGED <<blank_cards, ref, arg, res, dbvars>>

\* get_random_string(7) of Storage.get_alternative_name
RandomStrings == {<<"a", "b", "c", "d", "e", "f", "g">>, <<"t", "u", "v", "w", "x", "y", "z">>}

\* Storage.get_alternative_name: <root>_<random><ext>
AlternativeName(name, random) ==
    SubSeq(name, 1, Len(name) - Len(DotPdf)) \o <<"_">> \o random \o DotPdf

\* The names Storage.get_available_name may return: the name itself while no
\* file has it, else an alternative name no file has.
AvailableNames(name, files) ==
    IF name \notin files THEN {name}
    ELSE {AlternativeName(name, r) : r \in RandomStrings} \ files

\* saved_path = default_storage.save(storage_str, ContentFile(pdf_bytes)): the
\* file is created under an available name and never replaces another one.
StorageSave(t) ==
    LET c == call[t] IN
    /\ c.pc = "store"
    /\ \E saved_path \in AvailableNames(BatchName(c.filename, c.blank), DOMAIN storage) :
          /\ storage' = [n \in DOMAIN storage \cup {saved_path} |->
                            IF n = saved_path THEN c.pages ELSE storage[n]]
          /\ call' = [call EXCEPT ![t].pc = "done", ![t].result = "stored",
                                    ![t].path = saved_path]
    /\ UNCHANGED <<blank_cards, ref, arg, res, dbvars>>

\* The call returns (or raises) to its caller.
Return(t) ==
    /\ call[t].pc = "done"
    /\ call' = [call EXCEPT ![t] = Idle]
    /\ UNCHANGED <<blank_cards, storage, ref, arg, res, dbvars>>

\* The call returns and the history remembers it and its result.
ReturnRemembered(t) ==
    /\ call[t].pc = "done"
    /\ call[t].result = "bytes"
    /\ ref' = [op |-> call[t].op, items |-> call[t].items, blank |-> call[t].blank,
               pages |-> call[t].pages]
    /\ call' = [call EXCEPT ![t] = Idle]
    /\ UNCHANGED <<blank_cards, storage, arg, res, dbvars>>

Step(t) ==
    \/ Enter(t)
    \/ EnterInner(t)
    \/ DrawNext(t)
    \/ FinishRender(t)
    \/ Save(t)

\* Sequential use of one renderer: one caller, one call after the other.
Next ==
    \/ CallPreview(1)
    \/ CallToBytes(1, MaxSeqItems)
    \/ CallBatch(1, MaxSeqItems)
    \/ Step(1)
    \/ Return(1)
    \/ ReturnRemembered(1)

Spec == InitRenderer /\ [][Next]_vars

\* Concurrent use of one renderer by two threads.
NextConc ==
    \E t \in Threads :
        \/ CallPreview(t)
        \/ CallToBytes(t, MaxConcItems)
        \/ CallBatch(t, MaxConcItems)
        \/ Step(t)
        \/ Return(t)

SpecConc == InitRenderer /\ [][NextConc]_vars

MaxFiles == 2   \* files in the storage when a batch generation starts

\* A caller asks for the cards of one item under the one file name.
CallBatchOfItem(t) ==
    /\ Cardinality(DOMAIN storage) < MaxFiles
    /\ \E id \in ItemIds, f \in FileNames :
          StartCall(t, "render_batch_to_storage", <<id>>, FALSE, f)

\* Batch generations by two threads, the storage calls of each a step of
\* their own.
NextStore ==
    \E t \in Threads :
        \/ CallBatchOfItem(t)
        \/ Enter(t)
        \/ EnterInner(t)
        \/ DrawNext(t)
        \/ FinishRender(t)
        \/ StorageExists(t)
        \/ StorageDelete(t)
        \/ StorageSave(t)
        \/ Return(t)

SpecStore == InitRenderer /\ [][NextStore]_vars

\* One render_to_bytes call of up to MaxItems items on a fresh renderer.
NextPages ==
    \/ /\ ref = NoRef
       /\ CallToBytes(1, MaxItems)
    \/ Enter(1)
    \/ DrawNext(1)
    \/ FinishRender(1)
    \/ ReturnRemembered(1)

SpecPages == InitRenderer /\ [][NextPages]_vars

(***************************************************************************)
(* Pure functions under check: the input is drawn in Init, one action      *)
(* applies the function. res is <<>> before and <<result>> after.          *)
(***************************************************************************)
InitPure(inputs) ==
    /\ blank_cards = FALSE
    /\ call = [t \in Threads |-> Idle]
    /\ storage = <<>>
    /\ ref = NoRef
    /\ arg \in inputs
    /\ res = <<>>
    /\ NoRequests

Apply(value) ==
    /\ res = <<>>
    /\ res' = <<value>>
    /\ UNCHANGED <<blank_cards, call, storage, ref, arg, dbvars>>

\* --- one card drawn by _draw_card ---------------------------------------
MaxTitleLines == 9   \* lines a 200-character name can wrap to at 16 pt

ColorSamples ==
    { <<>>,
      <<"#", "F", "F", "F", "F", "0", "0">>,
      <<"#", "0", "0", "0", "0", "8", "0">>,
      <<"#", "F", "F", "F">>,
      <<"F", "F", "F", "F", "0", "0">>,
      <<"r", "e", "d">> }

CardItems ==
    [id : {"A"}, titleLines : 0..MaxTitleLines, reorder_quantity : {1, 2, 250},
     minimum_stock : {0, 10}, lead : {0, 1, 14}, hasCategory : BOOLEAN,
     color : ColorSamples, image : {<<>>, <<100, 80>>, <<1200, 900>>, <<200, 10>>}]

CardInputs == [blank : BOOLEAN, item : CardItems, pos : 0..(CARDS_PER_PAGE - 1)]

DrawCardStep ==
    Apply(DrawCard(arg.blank, arg.item, Position(arg.pos).x, Position(arg.pos).y))

SpecCard == InitPure(CardInputs) /\ [][DrawCardStep]_vars

\* --- _wrap_text ---------------------------------------------------------
MaxTextLen == 7

WrapAlphabet == {"W", "i", " "}

\* max_width in 1/100 pt
WrapWidths == {500, 1000, 1500, 2500}

WrapInputs == [text : SeqsUpTo(WrapAlphabet, MaxTextLen), max_width : WrapWidths]

WrapStep == Apply(WrapText(arg.text, arg.max_width, HighlightFontSize))

SpecWrap == InitPure(WrapInputs) /\ [][WrapStep]_vars

\* --- _get_contrast_text_color -------------------------------------------
\* Category.color is a CharField(max_length=7).
ColorMaxLength == 7

ColorAlphabet == {"#", "F", "0", "+", " "}

NamedColors ==
    { <<"n", "o", "t", "-", "a", "-", "c", "o", "l", "o", "r">>,
      <<"#", "8", "0", "8", "0", "8", "0">>,
      <<"#", "7", "F", "7", "F", "7", "F">>,
      <<"#", "G", "G", "G", "G", "G", "G">>,
      <<"#", "2", "5", "6", "3", "e", "b">>,
      <<"f", "f", "f", "f", "f", "f">> }

ColorInputs == SeqsUpTo(ColorAlphabet, ColorMaxLength) \cup NamedColors

ContrastStep == Apply(GetContrastTextColor(arg))

SpecColor == InitPure(ColorInputs) /\ [][ContrastStep]_vars

\* --- _pluralize ----------------------------------------------------------
MaxCount == 11
MaxWordLen == 3

PluralAlphabet == {"a", "y", "s", "h", "c", "x", "t"}

PluralInputs == [count : 0..MaxCount, word : SeqsUpTo(PluralAlphabet, MaxWordLen)]

PluralizeStep == Apply(Pluralize(arg.count, arg.word))

SpecPlural == InitPure(PluralInputs) /\ [][PluralizeStep]_vars

(***************************************************************************)
(* The API handlers on the database. db holds the columns the handlers     *)
(* read and write:                                                         *)
(*   stock[i]      InventoryItem.current_stock                             *)
(*   usage         the UsageLog rows, in order of creation                 *)
(*   reorders[r]   ReorderRequest.status and .actual_delivery              *)
(*   links[k]      ItemSupplier rows: saved or not, item, is_primary       *)
(*   po_status     PurchaseOrder.status of the one purchase order          *)
(*   po_sent_at, po_sent_by, po_expected   its sent_at, sent_by and        *)
(*                 expected_delivery_date                                  *)
(*   received[l]   PurchaseOrderItem.quantity_received                     *)
(*   delivered[l]  the sum of DeliveryItem.quantity_received of the line   *)
(*   lead_logs     the number of LeadTimeLog rows                          *)
(***************************************************************************)
MaxStock == 4      \* stock above which no more receipts are tried
MaxQuantity == 2   \* largest quantity a request names
MaxLogs == 2       \* usage logs after which no more usage is logged

rendervars == <<blank_cards, call, storage, ref, arg, res>>

\* No render call is made while the API handlers are exercised.
RendererIdle ==
    /\ blank_cards = FALSE
    /\ call = [t \in Threads |-> Idle]
    /\ storage = <<>>
    /\ ref = NoRef
    /\ arg = <<>>
    /\ res = <<>>

Absent == "absent"   \* the key is not in request.data
NoDate == "null"     \* a DateField that is NULL
Today == "today"     \* timezone.now().date()
Dates == {"2024-05-01"}

ReorderIds == {1, 2}

\* The item and quantity of the ReorderRequest rows.
ReorderRow(pk) ==
    IF pk = 1 THEN [item |-> "A", quantity |-> 2] ELSE [item |-> "B", quantity |-> 1]

LinkIds == {1, 2, 3}
LineIds == {1, 2}

NoLast == [op |-> "none"]

\* The rows before any request: stocks and reorder statuses as given,
\* no usage log, no supplier link, a sent purchase order with nothing received.
Rows(stock, statuses) ==
    [stock |-> stock,
     usage |-> <<>>,
     reorders |-> [r \in ReorderIds |-> [status |-> statuses[r], actual_delivery |-> NoDate]],
     links |-> [k \in LinkIds |-> [saved |-> FALSE, item |-> "A", is_primary |-> FALSE]],
     po_status |-> "sent",
     po_sent_at |-> "earlier",
     po_sent_by |-> "alice",
     po_expected |-> NoDate,
     received |-> [l \in LineIds |-> 0],
     delivered |-> [l \in LineIds |-> 0],
     lead_logs |-> 0]

\* --- ReorderRequestViewSet.mark_received ---------------------------------
\* A mutant of StockAfterReceipt: the stock is set to the quantity, not raised.
StockAfterReceiptSet(current_stock, quantity) == quantity

\* item.current_stock += reorder.quantity
StockAfterReceipt(current_stock, quantity) == current_stock + quantity

\* request.data.get("actual_delivery", timezone.now().date())
ActualDelivery(given) == IF given = Absent THEN Today ELSE given

\* POST mark_received on request pk, the whole handler.
MarkReceived(pk, actual_delivery) ==
    LET item == ReorderRow(pk).item
        quantity == ReorderRow(pk).quantity
    IN /\ db.stock[item] + quantity <= MaxStock
       /\ db' = [db EXCEPT
                   !.reorders[pk] = [status |-> "received",
                                     actual_delivery |-> ActualDelivery(actual_delivery)],
                   !.stock[item] = StockAfterReceipt(@, quantity)]
       /\ last' = [op |-> "mark_received", pk |-> pk, pre |-> db, code |-> 200]
       /\ UNCHANGED <<req, rendervars>>

InitReceive ==
    /\ RendererIdle
    /\ db \in {Rows(s, st) : s \in [ItemIds -> 0..1],
                            st \in [ReorderIds -> {"pending", "ordered"}]}
    /\ req = <<>>
    /\ last = NoLast

NextReceive ==
    \E pk \in ReorderIds, d \in {Absent} \cup Dates : MarkReceived(pk, d)

SpecReceive == InitReceive /\ [][NextReceive]_vars

\* --- ReorderRequestViewSet.approve / mark_ordered / cancel ----------------
\* POST approve, mark_ordered or cancel on request pk: the handler sets the
\* status, whatever it was, and saves the request.
SetReorderStatus(pk, op, status) ==
    /\ db' = [db EXCEPT !.reorders[pk].status = status]
    /\ last' = [op |-> op, pk |-> pk, pre |-> db, code |-> 200]
    /\ UNCHANGED <<req, rendervars>>

Approve(pk) == SetReorderStatus(pk, "approve", "approved")

MarkOrdered(pk) == SetReorderStatus(pk, "mark_ordered", "ordered")

Cancel(pk) == SetReorderStatus(pk, "cancel", "cancelled")

\* The requests are new and nothing is in stock.
InitLifecycle ==
    /\ RendererIdle
    /\ db = Rows([i \in ItemIds |-> 0], [r \in ReorderIds |-> "pending"])
    /\ req = <<>>
    /\ last = NoLast

NextLifecycle ==
    \E pk \in ReorderIds :
        \/ Approve(pk)
        \/ MarkOrdered(pk)
        \/ \E d \in {Absent} \cup Dates : MarkReceived(pk, d)
        \/ Cancel(pk)

SpecLifecycle == InitLifecycle /\ [][NextLifecycle]_vars

\* --- InventoryItemViewSet.log_usage --------------------------------------
\* A mutant of StockAfterUsage: the stock is lowered without the test.
StockAfterUsageUnchecked(current_stock, quantity) == current_stock - quantity

\* if item.current_stock >= quantity: item.current_stock -= quantity
StockAfterUsage(current_stock, quantity) ==
    IF current_stock >= quantity THEN current_stock - quantity ELSE current_stock

\* request.data.get("quantity", 1); the data holds <<q>>, or <<>> without the key.
QuantityOf(given) == IF given = <<>> THEN 1 ELSE given[1]

\* POST log_usage on item pk, the whole handler.
LogUsage(pk, quantity) ==
    /\ Len(db.usage) < MaxLogs
    /\ db' = [db EXCEPT
                !.usage = Append(@, [item |-> pk, quantity_used |-> QuantityOf(quantity)]),
                !.stock[pk] = StockAfterUsage(@, QuantityOf(quantity))]
    /\ last' = [op |-> "log_usage", pk |-> pk, quantity |-> quantity, pre |-> db,
                code |-> 200]
    /\ UNCHANGED <<req, rendervars>>

InitUsage ==
    /\ RendererIdle
    /\ db \in {Rows(s, [r \in ReorderIds |-> "pending"]) : s \in [ItemIds -> 0..MaxStock]}
    /\ req = <<>>
    /\ last = NoLast

NextUsage ==
    \E pk \in ItemIds, q \in {<<>>} \cup {<<n>> : n \in 0..MaxQuantity} : LogUsage(pk, q)

SpecUsage == InitUsage /\ [][NextUsage]_vars

\* --- ItemSupplier.save ---------------------------------------------------
\* A mutant of OtherPrimaries: no other link is found, so none is cleared.
OtherPrimariesNone(links, pk, item) == {}

\* ItemSupplier.objects.filter(item=self.item, is_primary=True).exclude(pk=self.pk)
OtherPrimaries(links, pk, item) ==
    {k \in LinkIds \ {pk} : links[k].saved /\ links[k].item = item /\ links[k].is_primary}

\* save() of the link pk, new or already stored, with the item and is_primary
\* the caller gave it. Each link has its own supplier (unique_together).
SaveLink(pk, item, is_primary) ==
    LET cleared == IF is_primary THEN OtherPrimaries(db.links, pk, item) ELSE {}
    IN /\ db' = [db EXCEPT !.links =
                    [k \in LinkIds |->
                        IF k = pk THEN [saved |-> TRUE, item |-> item, is_primary |-> is_primary]
                        ELSE IF k \in cleared THEN [db.links[k] EXCEPT !.is_primary = FALSE]
                        ELSE db.links[k]]]
       /\ last' = [op |-> "save_link", pk |-> pk, item |-> item, is_primary |-> is_primary,
                   pre |-> db, code |-> 200]
       /\ UNCHANGED <<req, rendervars>>

InitSuppliers ==
    /\ RendererIdle
    /\ db = Rows([i \in ItemIds |-> 0], [r \in ReorderIds |-> "pending"])
    /\ req = <<>>
    /\ last = NoLast

NextSuppliers ==
    \E pk \in LinkIds, item \in ItemIds, is_primary \in BOOLEAN : SaveLink(pk, item, is_primary)

SpecSuppliers == InitSuppliers /\ [][NextSuppliers]_vars

\* --- OrderReceiptViewSet.scan_barcode ------------------------------------
\* The line items of the purchase order: both suppliers' products carry the
\* same unit UPC, so a scan of "uu" matches both lines.
LineRow(l) ==
    IF l = 1
    THEN [item |-> "A", package_upc |-> "u1", unit_upc |-> "uu", quantity_ordered |-> 2]
    ELSE [item |-> "B", package_upc |-> "u2", unit_upc |-> "uu", quantity_ordered |-> 1]

Upcs == {"u1", "u2", "uu", "zz"}

\* BarcodeReceiptSerializer.validate_purchase_order_id: the statuses that accept
\* deliveries.
Receivable == {"sent", "confirmed", "partially_received"}

IdleRequest == [pc |-> "idle"]

\* PurchaseOrderItem.quantity_pending
QuantityPending(quantity_ordered, quantity_received) ==
    Max(0, quantity_ordered - quantity_received)

\* PurchaseOrderItem.is_fully_received
ItemFullyReceived(l, received) == received[l] >= LineRow(l).quantity_ordered

\* PurchaseOrder.is_fully_received
OrderFullyReceived(received) == \A l \in LineIds : ItemFullyReceived(l, received)

\* A mutant of StatusAfterScan: only the scanned line is looked at.
StatusAfterScanLine(received, line) ==
    IF ItemFullyReceived(line, received) THEN "received" ELSE "partially_received"

\* purchase_order.status after a scan of the line, given the rows the handler saw.
StatusAfterScan(received, line) ==
    IF OrderFullyReceived(received) THEN "received" ELSE "partially_received"

\* A mutant of ReceivedAfterScan: the stored value is raised (an F() update).
ReceivedAfterScanStored(read, stored, quantity) == stored + quantity

\* po_item.quantity_received += quantity_received, on the instance read earlier;
\* save() stores that value.
ReceivedAfterScan(read, stored, quantity) == read + quantity

\* The request ends: the response goes out and the history remembers it.
Respond(t, code) ==
    /\ req' = [req EXCEPT ![t] = IdleRequest]
    /\ last' = [op |-> "scan_barcode", t |-> t, pre_status |-> req[t].pre_status,
                code |-> code]

\* POST scan_barcode arrives with a UPC and a quantity.
StartScan(t, upc, quantity) ==
    /\ req[t].pc = "idle"
    /\ req' = [req EXCEPT ![t] = [pc |-> "validate", upc |-> upc, quantity |-> quantity,
                                  line |-> 0, read |-> 0, seen |-> <<>>,
                                  pre_status |-> db.po_status]]
    /\ UNCHANGED <<db, last, rendervars>>

\* serializer.is_valid(raise_exception=True): quantity_received >= 1, and the
\* purchase order's status accepts deliveries.
ValidateScan(t) ==
    /\ req[t].pc = "validate"
    /\ IF req[t].quantity >= 1 /\ db.po_status \in Receivable
       THEN /\ req' = [req EXCEPT ![t].pc = "find"]
            /\ UNCHANGED last
       ELSE Respond(t, 400)
    /\ UNCHANGED <<db, rendervars>>

\* The lines whose package or unit UPC is the scanned one.
MatchingItems(upc) ==
    {l \in LineIds : LineRow(l).package_upc = upc \/ LineRow(l).unit_upc = upc}

\* The purchase order and its line items are read, the line is found by its UPC
\* and the quantity is tested against what is pending on the row just read.
FindItem(t) ==
    /\ req[t].pc = "find"
    /\ IF Cardinality(MatchingItems(req[t].upc)) # 1
       THEN Respond(t, 400)
       ELSE LET po_item == CHOOSE l \in MatchingItems(req[t].upc) : TRUE
                remaining_quantity ==
                    QuantityPending(LineRow(po_item).quantity_ordered, db.received[po_item])
            IN IF req[t].quantity > remaining_quantity
               THEN Respond(t, 400)
               ELSE /\ req' = [req EXCEPT ![t].pc = "receive", ![t].line = po_item,
                                          ![t].read = db.received[po_item]]
                    /\ UNCHANGED last
    /\ UNCHANGED <<db, rendervars>>

\* Inside transaction.atomic(): purchase_order.is_fully_received reads the line
\* items; what other requests commit after this read is not seen.
ReadOrderLines(t) ==
    /\ req[t].pc = "receive"
    /\ req' = [req EXCEPT ![t].pc = "commit", ![t].seen = db.received]
    /\ UNCHANGED <<db, last, rendervars>>

\* The transaction commits: the delivery item, the line's quantity_received, the
\* item's stock, the order's status and, for a line now complete, a lead time log.
CommitScan(t) ==
    LET r == req[t]
        quantity_received == ReceivedAfterScan(r.read, db.received[r.line], r.quantity)
        seen == [r.seen EXCEPT ![r.line] = quantity_received]
    IN /\ r.pc = "commit"
       /\ db.stock["A"] + db.stock["B"] + r.quantity <= MaxStock
       /\ db' = [db EXCEPT
                   !.delivered[r.line] = @ + r.quantity,
                   !.received[r.line] = quantity_received,
                   !.stock[LineRow(r.line).item] = @ + r.quantity,
                   !.po_status = StatusAfterScan(seen, r.line),
                   !.lead_logs = IF ItemFullyReceived(r.line, seen) THEN @ + 1 ELSE @]
       /\ Respond(t, 200)
       /\ UNCHANGED rendervars

InitScan ==
    /\ RendererIdle
    /\ db \in {[Rows([i \in ItemIds |-> 0], [r \in ReorderIds |-> "pending"])
                   EXCEPT !.po_status = st] : st \in {"draft", "sent", "confirmed"}}
    /\ req = [t \in Threads |-> IdleRequest]
    /\ last = NoLast

ScanStep(t) ==
    \/ \E upc \in Upcs, quantity \in 0..MaxQuantity : StartScan(t, upc, quantity)
    \/ ValidateScan(t)
    \/ FindItem(t)
    \/ ReadOrderLines(t)
    \/ CommitScan(t)

\* Scans handled concurrently by the threads of the server.
NextScan == \E t \in Threads : ScanStep(t)

SpecScan == InitScan /\ [][NextScan]_vars

\* Scans handled one after the other.
NextScanSeq == ScanStep(1)

SpecScanSeq == InitScan /\ [][NextScanSeq]_vars

\* --- PurchaseOrderViewSet.send_to_supplier / confirm_order ----------------
Users == {"alice", "bob"}

\* A mutant of CanSend: every order that is not cancelled can be sent.
CanSendUnlessCancelled(status) == status # "cancelled"

\* purchase_order.status != PurchaseOrder.DRAFT returns 400
CanSend(status) == status = "draft"

\* purchase_order.status != PurchaseOrder.SENT returns 400
CanConfirm(status) == status = "sent"

\* POST send_to_supplier by the user, the whole handler.
SendToSupplier(user) ==
    /\ req[1].pc = "idle"
    /\ IF CanSend(db.po_status)
       THEN /\ db' = [db EXCEPT !.po_status = "sent", !.po_sent_by = user,
                                !.po_sent_at = "now"]
            /\ last' = [op |-> "send_to_supplier", pre |-> db, code |-> 200]
       ELSE /\ db' = db
            /\ last' = [op |-> "send_to_supplier", pre |-> db, code |-> 400]
    /\ UNCHANGED <<req, rendervars>>

\* POST confirm_order with or without expected_delivery_date, the whole handler.
ConfirmOrder(expected_delivery_date) ==
    /\ req[1].pc = "idle"
    /\ IF CanConfirm(db.po_status)
       THEN /\ db' = [db EXCEPT !.po_status = "confirmed",
                                !.po_expected = IF expected_delivery_date = Absent
                                                THEN NoDate ELSE expected_delivery_date]
            /\ last' = [op |-> "confirm_order", pre |-> db, code |-> 200]
       ELSE /\ db' = db
            /\ last' = [op |-> "confirm_order", pre |-> db, code |-> 400]
    /\ UNCHANGED <<req, rendervars>>

\* A purchase order just created (draft) or cancelled before it was sent.
InitOrder ==
    /\ RendererIdle
    /\ db \in {[Rows([i \in ItemIds |-> 0], [r \in ReorderIds |-> "pending"])
                   EXCEPT !.po_status = st, !.po_sent_at = NoDate, !.po_sent_by = "null"] :
               st \in {"draft", "cancelled"}}
    /\ req = [t \in Threads |-> IdleRequest]
    /\ last = NoLast

\* The life of the order: sent, confirmed, and received scan by scan, the
\* requests handled one after the other.
NextOrder ==
    \/ \E user \in Users : SendToSupplier(user)
    \/ \E d \in {Absent} \cup Dates : ConfirmOrder(d)
    \/ ScanStep(1)

SpecOrder == InitOrder /\ [][NextOrder]_vars

\* --- PurchaseOrder.auto_generate_po_number / PurchaseOrderCreateSerializer --
\* po_number strings are sequences of characters; <<>> is the empty string a
\* CharField holds when no value is given. db.po is the purchase order table,
\* one po_number per row, the row's pk its index.
MaxOrders == 3

\* timezone.now().year
ThisYear == 2025

StartsWith(s, prefix) ==
    Len(s) >= Len(prefix) /\ SubSeq(s, 1, Len(prefix)) = prefix

\* s.split("-")[-1]: what follows the last "-" (all of s when it has none).
LastDashField(s) ==
    LET dashes == {i \in 1..Len(s) : s[i] = "-"}
    IN  IF dashes = {} THEN s
        ELSE SubSeq(s, (CHOOSE i \in dashes : \A j \in dashes : j <= i) + 1, Len(s))

RECURSIVE ZeroPad4(_)
\* The digits of n under the format 04d: zeros on the left up to four characters.
ZeroPad4(digits) == IF Len(digits) >= 4 THEN digits ELSE ZeroPad4(<<"0">> \o digits)

\* f"PO-{year}-"
PoPrefix(year) == <<"P", "O", "-">> \o IntToStr(year) \o <<"-">>

\* f"PO-{year}-{next_num:04d}"
PoNumber(year, num) == PoPrefix(year) \o ZeroPad4(IntToStr(num))

\* The rank of a character in the database's ordering of the characters a
\* po_number is made of.
CharRank(c) ==
    CASE c = "-" -> 0 [] c \in DecDigits -> 1 + HexVal(c) [] c = "O" -> 11 [] c = "P" -> 12

RECURSIVE StrLess(_, _)
\* ORDER BY on a CharField: strings compare character by character.
StrLess(a, b) ==
    IF b = <<>> THEN FALSE
    ELSE IF a = <<>> THEN TRUE
    ELSE IF a[1] # b[1] THEN CharRank(a[1]) < CharRank(b[1])
    ELSE StrLess(Tail(a), Tail(b))

\* filter(po_number__startswith=f"PO-{year}-").order_by("-po_number").first():
\* <<po_number>> of the greatest string, or <<>> when no row matches.
LastPoNumber(table, year) ==
    LET rows == {i \in 1..Len(table) : StartsWith(table[i], PoPrefix(year))}
    IN  IF rows = {} THEN <<>>
        ELSE <<table[CHOOSE i \in rows : \A j \in rows \ {i} : StrLess(table[j], table[i])]>>

\* The number after the last one: int() of its last field plus one, 1 when
\* int() raises ValueError or there is no last one.
NextNum(last_po) ==
    IF last_po = <<>> THEN 1
    ELSE LET parsed == PyInt(LastDashField(last_po[1]), 10)
         IN  IF parsed = <<>> THEN 1 ELSE parsed[1] + 1

\* auto_generate_po_number: the po_number the instance holds afterwards.
AutoGeneratePoNumber(po_number, table, year) ==
    IF po_number # <<>> THEN po_number
    ELSE PoNumber(year, NextNum(LastPoNumber(table, year)))

\* PurchaseOrder.objects.create(...): the row is inserted with an empty
\* po_number, which the unique constraint refuses while another row has one.
InsertOrder(t) ==
    /\ req[t].pc = "idle"
    /\ Len(db.po) < MaxOrders + Len(db.issued)
    /\ IF \E i \in 1..Len(db.po) : db.po[i] = <<>>
       THEN /\ last' = [op |-> "create_order", t |-> t, code |-> 500, pk |-> 0]
            /\ UNCHANGED <<db, req>>
       ELSE /\ db' = [db EXCEPT !.po = Append(@, <<>>)]
            /\ req' = [req EXCEPT ![t] = [pc |-> "inserted", pk |-> Len(db.po) + 1]]
            /\ last' = last
    /\ UNCHANGED rendervars

\* purchase_order.auto_generate_po_number(): the query and the new number, held
\* by the instance.
GeneratePoNumber(t) ==
    /\ req[t].pc = "inserted"
    /\ req' = [req EXCEPT ![t] =
                  [pc |-> "numbered", pk |-> req[t].pk,
                   po_number |-> AutoGeneratePoNumber(db.po[req[t].pk], db.po, ThisYear)]]
    /\ UNCHANGED <<db, last, rendervars>>

\* purchase_order.save() and the rest of create: the UPDATE raises
\* IntegrityError when another row has the po_number, and the row keeps its own.
SaveOrder(t) ==
    /\ req[t].pc = "numbered"
    /\ IF \E i \in 1..Len(db.po) : i # req[t].pk /\ db.po[i] = req[t].po_number
       THEN /\ last' = [op |-> "create_order", t |-> t, code |-> 500, pk |-> req[t].pk]
            /\ db' = db
       ELSE /\ db' = [db EXCEPT !.po[req[t].pk] = req[t].po_number]
            /\ last' = [op |-> "create_order", t |-> t, code |-> 201, pk |-> req[t].pk]
    /\ req' = [req EXCEPT ![t] = IdleRequest]
    /\ UNCHANGED rendervars

\* The orders of the table before the first request: none, one of this year,
\* one of last year, or number 9999 of this year. db.issued keeps them.
InitOrders ==
    /\ RendererIdle
    /\ \E table \in {<<>>, <<PoNumber(ThisYear, 1)>>, <<PoNumber(ThisYear - 1, 7)>>,
                     <<PoNumber(ThisYear, 9999)>>} :
          db = [po |-> table, issued |-> table]
    /\ req = [t \in Threads |-> IdleRequest]
    /\ last = NoLast

\* Two workers create orders, their steps interleaved.
NextOrders ==
    \E t \in Threads : InsertOrder(t) \/ GeneratePoNumber(t) \/ SaveOrder(t)

SpecOrders == InitOrders /\ [][NextOrders]_vars

\* --- PurchaseOrderViewSet._calculate_optimal_quantity ----------------------
MaxPackage == 4

\* A mutant of PackagesNeeded: the division rounds down.
PackagesNeededFloor(base_quantity, quantity_per_package) ==
    base_quantity \div quantity_per_package

\* (base_quantity + quantity_per_package - 1) // quantity_per_package
PackagesNeeded(base_quantity, quantity_per_package) ==
    (base_quantity + quantity_per_package - 1) \div quantity_per_package

CalculateOptimalQuantity(item, supplier) ==
    LET shortage == Max(0, item.minimum_stock - item.current_stock)
        base_quantity == Max(shortage, item.reorder_quantity)
    IN  IF supplier.quantity_per_package # 0 /\ supplier.quantity_per_package > 1
        THEN PackagesNeeded(base_quantity, supplier.quantity_per_package)
                 * supplier.quantity_per_package
        ELSE base_quantity

\* The item's stock fields and the supplier's package size are
\* PositiveIntegerFields, which hold 0 as well.
OptimalInputs ==
    [item : [minimum_stock : 0..MaxStock, current_stock : 0..MaxStock,
             reorder_quantity : 0..(MaxQuantity + 1)],
     supplier : [quantity_per_package : 0..MaxPackage]]

OptimalStep == Apply(CalculateOptimalQuantity(arg.item, arg.supplier))

SpecOptimal == InitPure(OptimalInputs) /\ [][OptimalStep]_vars

(***************************************************************************)
(* Properties                                                              *)
(***************************************************************************)
\* The cards of a call, page by page, the page being drawn included.
PagesOf(c) == IF c.page = <<>> THEN c.pages ELSE Append(c.pages, c.page)

\* The card is drawn as a blank card: a border and a QR code, nothing else.
DrawnBlank(card) == \A i \in DOMAIN card.cmds : card.cmds[i].kind \in {"border", "qr"}

AllDrawn(pages, blank) ==
    \A k \in DOMAIN pages : \A j \in DOMAIN pages[k] : DrawnBlank(pages[k][j]) <=> blank

\* C1: a finished render_to_bytes call on N >= 1 items has emitted ceil(N/3)
\* pages, and page k holds exactly the items 3(k-1)+1 .. min(3k, N), in input order.
C1_PagesPartitionItems ==
    LET c == call[1]
        N == Len(c.items)
    IN (c.pc = "done" /\ c.op = "render_to_bytes" /\ N >= 1) =>
          /\ Len(c.pages) = (N + 2) \div 3
          /\ \A k \in DOMAIN c.pages :
                /\ Len(c.pages[k]) = Min(3 * k, N) - 3 * (k - 1)
                /\ \A j \in DOMAIN c.pages[k] :
                      /\ c.pages[k][j].item = c.items[3 * (k - 1) + j]
                      /\ Cardinality(CmdsOfKind(c.pages[k][j].cmds, "border")) = 1

C1_Witness ==
    /\ call[1].pc = "done"
    /\ Len(call[1].items) = 7
    /\ Len(call[1].pages) = 3
    /\ Len(call[1].pages[1]) = 3 /\ Len(call[1].pages[2]) = 3 /\ Len(call[1].pages[3]) = 1
    /\ call[1].items[1] # call[1].items[2]

RectInsideMargins(r) ==
    /\ r.x >= LEFT_MARGIN /\ r.x + r.w <= PAGE_WIDTH - RIGHT_MARGIN
    /\ r.y >= BOTTOM_MARGIN /\ r.y + r.h <= PAGE_HEIGHT - TOP_MARGIN

RectsDisjoint(a, b) ==
    \/ a.x + a.w <= b.x \/ b.x + b.w <= a.x
    \/ a.y + a.h <= b.y \/ b.y + b.h <= a.y

\* C2: on every page, the card rectangles (the borders _draw_card draws) lie
\* inside the page minus its margins and no two of them overlap (they may touch).
C2_CardsInsideMarginsDisjoint ==
    \A k \in DOMAIN PagesOf(call[1]) :
        LET page == PagesOf(call[1])[k] IN
        \A i \in DOMAIN page :
            /\ page[i].cmds[1].kind = "border"
            /\ page[i].cmds[1].w = CARD_WIDTH /\ page[i].cmds[1].h = CARD_HEIGHT
            /\ RectInsideMargins(page[i].cmds[1])
            /\ \A j \in DOMAIN page :
                  i # j => RectsDisjoint(page[i].cmds[1], page[j].cmds[1])

C2_Witness ==
    /\ Len(call[1].pages) >= 1
    /\ Len(call[1].pages[1]) = 3

\* C3: when render_batch_to_storage(items, blank_cards=b) has stored its PDF,
\* every card of the stored PDF is drawn blank if and only if b.
C3_BatchDrawsRequestedVariant ==
    LET c == call[1]
        name == BatchName(c.filename, c.blank)
    IN (c.op = "render_batch_to_storage" /\ c.result = "stored") =>
          /\ name \in DOMAIN storage
          /\ AllDrawn(storage[name], c.blank)

\* C4: a card drawn with the BLANK variant is exactly the card's border and one
\* QR image of QR_CODE_SIZE centred in the card rectangle, whatever the item.
C4_BlankCardIsBorderAndQr ==
    (res # <<>> /\ arg.blank) =>
        LET cmds == res[1]
            ox == Position(arg.pos).x
            oy == Position(arg.pos).y
        IN /\ Len(cmds) = 2
           /\ cmds[1].op = "roundRect" /\ cmds[1].kind = "border"
           /\ cmds[1].x = ox /\ cmds[1].y = oy
           /\ cmds[1].w = CARD_WIDTH /\ cmds[1].h = CARD_HEIGHT
           /\ cmds[2].op = "drawImage" /\ cmds[2].kind = "qr"
           /\ cmds[2].w = QR_CODE_SIZE /\ cmds[2].h = QR_CODE_SIZE
           /\ 2 * cmds[2].x + cmds[2].w = 2 * ox + CARD_WIDTH
           /\ 2 * cmds[2].y + cmds[2].h = 2 * oy + CARD_HEIGHT

C4_Witness ==
    /\ res # <<>> /\ arg.blank
    /\ arg.item.titleLines = 2 /\ arg.item.hasCategory /\ arg.item.color # <<>>
    /\ arg.item.image # <<>> /\ arg.item.lead # 0

\* C5: under concurrent calls on one renderer, every card of a finished
\* render_preview or render_to_bytes call is drawn in the variant that call was given.
C5_ConcurrentCallsKeepVariant ==
    \A t \in Threads :
        (call[t].pc = "done" /\ call[t].result = "bytes") =>
            AllDrawn(call[t].pages, call[t].blank)

\* C6: a finished render_preview or render_to_bytes call has produced the same
\* draw commands as any earlier such call with the same items and the same
\* variant, whatever was called in between.
C6_SameArgumentsSameCommands ==
    (/\ call[1].pc = "done" /\ call[1].result = "bytes"
     /\ ref.op # "none"
     /\ ref.items = call[1].items /\ ref.blank = call[1].blank)
    => call[1].pages = ref.pages

C6_Witness ==
    /\ call[1].pc = "done" /\ call[1].result = "bytes"
    /\ ref.op = "render_preview" /\ call[1].op = "render_to_bytes"
    /\ ref.items = call[1].items /\ ref.blank = call[1].blank
    /\ call[1].blank /\ call[1].pages # <<>>

\* C7: in a DETAILED card no stat line is drawn below the card's inner bottom
\* boundary, card origin y + CARD_PADDING.
C7_StatLinesAboveInnerBottom ==
    (res # <<>> /\ ~arg.blank) =>
        \A i \in CmdsOfKind(res[1], "info") :
            res[1][i].y >= Position(arg.pos).y + CARD_PADDING

\* C8: the title lines drawn fit the vertical budget handed to the title wrap
\* (0.4 inch, at 18 pt leading).
C8_TitleLinesWithinBudget ==
    (res # <<>> /\ ~arg.blank) =>
        Cardinality(CmdsOfKind(res[1], "title")) * TitleLeading <= TitleBudget

HasSpace(line) == \E i \in DOMAIN line : IsSpace(line[i])

\* C9: every line _wrap_text returns is at most max_width wide, or is a single
\* word that alone is wider than max_width.
C9_LineFitsOrIsOneLongWord ==
    res # <<>> =>
        \A i \in DOMAIN res[1] :
            \/ StringWidth(res[1][i], HighlightFontSize) <= arg.max_width * 10
            \/ ~HasSpace(res[1][i])

C9_Witness ==
    /\ res # <<>> /\ Len(res[1]) >= 2
    /\ \E i \in DOMAIN res[1] : HasSpace(res[1][i])
    /\ \E i \in DOMAIN res[1] :
          StringWidth(res[1][i], HighlightFontSize) > arg.max_width * 10

\* The string is a 6-hex-digit colour, behind optional whitespace and '#'.
WellFormedHex(s) ==
    LET c == LStripSet(Strip(s), {"#"}) IN
    Len(c) = 6 /\ \A i \in 1..6 : c[i] \in HexDigits

ExactlyLight(s) ==
    LET c == LStripSet(Strip(s), {"#"}) IN
    299 * (16 * HexVal(c[1]) + HexVal(c[2])) + 587 * (16 * HexVal(c[3]) + HexVal(c[4]))
        + 114 * (16 * HexVal(c[5]) + HexVal(c[6])) > 127500

\* C10: _get_contrast_text_color returns BLACK exactly for a 6-hex-digit colour
\* whose luminance exceeds 0.5, and WHITE for every other string.
C10_BlackIffLightHexColor ==
    res # <<>> => ((res[1] = "black") <=> (WellFormedHex(arg) /\ ExactlyLight(arg)))

\* C11: a drawn product photo keeps its aspect ratio (up to the rounding of the
\* drawn size to 1/100 pt), is never upscaled, does not exceed the
\* IMAGE_MAX_WIDTH x IMAGE_MAX_HEIGHT box, and is drawn at native size when the
\* photo already fits that box.
AbsDiff(a, b) == IF a >= b THEN a - b ELSE b - a

PhotoWithinMaxBox(c, iw, ih) ==
    /\ c.w <= iw /\ c.h <= ih
    /\ AbsDiff(c.w * ih, c.h * iw) <= Max(iw, ih)
    /\ c.w <= IMAGE_MAX_WIDTH /\ c.h <= IMAGE_MAX_HEIGHT
    /\ (iw <= IMAGE_MAX_WIDTH /\ ih <= IMAGE_MAX_HEIGHT) => (c.w = iw /\ c.h = ih)

C11_PhotoScaledWithinMaxBox ==
    (res # <<>> /\ ~arg.blank /\ arg.item.image # <<>>) =>
        \A i \in CmdsOfKind(res[1], "photo") :
            PhotoWithinMaxBox(res[1][i], arg.item.image[1] * 100, arg.item.image[2] * 100)

\* C12: render_to_bytes and render_batch_to_storage reject an empty item
\* sequence before anything is drawn or stored: such a call goes from its start
\* straight to raising, and never reaches the drawing, the canvas save or the
\* storage write.
C12_EmptyItemsRejected ==
    LET c == call[1] IN
    (c.op \in {"render_to_bytes", "render_batch_to_storage"} /\ c.items = <<>>) =>
        /\ c.pc \in {"start", "done"}
        /\ c.pc = "done" => c.result = "ValueError"

\* C13: every DETAILED card has exactly one QR image, of QR_CODE_SIZE, whatever
\* the item's photo, category and category colour; a card of an item without a
\* photo (or whose photo file is missing) has no photo image and is drawn to the
\* end (the category label, where the item has a category, is its last command).
C13_DetailedCardHasOneQr ==
    (res # <<>> /\ ~arg.blank) =>
        LET cmds == res[1] IN
        /\ Cardinality(CmdsOfKind(cmds, "qr")) = 1
        /\ \A i \in CmdsOfKind(cmds, "qr") :
              /\ cmds[i].op = "drawImage"
              /\ cmds[i].w = QR_CODE_SIZE /\ cmds[i].h = QR_CODE_SIZE
        /\ arg.item.image = <<>> =>
              /\ CmdsOfKind(cmds, "photo") = {}
              /\ CmdsOfKind(cmds, "cta") # {}
              /\ arg.item.hasCategory => cmds[Len(cmds)].kind = "category"

C13_Witness ==
    /\ res # <<>> /\ ~arg.blank
    /\ arg.item.image = <<>> /\ ~arg.item.hasCategory
    /\ Cardinality(CmdsOfKind(res[1], "qr")) = 1

\* C14: a DETAILED card is drawn whatever the category colour string, and when
\* the string is not a well-formed '#RRGGBB' colour the CTA badge is filled with
\* the default brand colour #2563eb and the QR code has no frame.
C14_MalformedColourGetsDefaults ==
    (res # <<>> /\ ~arg.blank /\ arg.item.hasCategory) =>
        LET cmds == res[1] IN
        /\ CmdsOfKind(cmds, "cta") # {}
        /\ ~WellFormedHex(arg.item.color) =>
              /\ \A i \in CmdsOfKind(cmds, "cta") : cmds[i].color = DefaultBrandColor
              /\ CmdsOfKind(cmds, "frame") = {}

\* C15: _pluralize(count, word) is '<count> <word>' for count = 1 and
\* '<count> <plural>' for every other count, 0 included, where the plural drops
\* a final 'y' after a consonant for 'ies', adds 's' to vowel + 'y', adds 'es'
\* after s, sh, ch, x or z, and adds 's' otherwise.
Vowels == {"a", "e", "i", "o", "u"}

LastIs(w, chars) == Len(w) >= 1 /\ w[Len(w)] \in chars

PluralOf(w) ==
    CASE LastIs(w, {"y"}) /\ Len(w) >= 2 /\ w[Len(w) - 1] \notin Vowels ->
             [i \in 1..(Len(w) + 2) |->
                 IF i < Len(w) THEN w[i]
                 ELSE IF i = Len(w) THEN "i" ELSE IF i = Len(w) + 1 THEN "e" ELSE "s"]
      [] LastIs(w, {"y"}) /\ Len(w) >= 2 /\ w[Len(w) - 1] \in Vowels -> Append(w, "s")
      [] LastIs(w, {"s", "x", "z"}) -> Append(Append(w, "e"), "s")
      [] LastIs(w, {"h"}) /\ Len(w) >= 2 /\ w[Len(w) - 1] \in {"s", "c"} ->
             Append(Append(w, "e"), "s")
      [] OTHER -> Append(w, "s")

C15_PluralizeByCountAndEnding ==
    (res # <<>> /\ arg \in PluralInputs) =>
        LET head == IntToStr(arg.count) \o <<" ">>
        IN res[1] = head \o (IF arg.count = 1 THEN arg.word ELSE PluralOf(arg.word))

C15_Witness ==
    /\ res # <<>> /\ arg \in PluralInputs
    /\ arg.count = 0 /\ arg.word = <<"c", "h">>
    /\ res[1] = <<"0", " ", "c", "h", "e", "s">>

C17_LogUsageNeverNegative ==
    /\ \A i \in ItemIds : db.stock[i] >= 0
    /\ last.op = "log_usage" =>
          LET q == IF last.quantity = <<>> THEN 1 ELSE last.quantity[1]
              before == last.pre.stock[last.pk]
          IN /\ Len(db.usage) = Len(last.pre.usage) + 1
             /\ \A n \in DOMAIN last.pre.usage : db.usage[n] = last.pre.usage[n]
             /\ db.usage[Len(db.usage)].item = last.pk
             /\ db.usage[Len(db.usage)].quantity_used = q
             /\ before >= q => db.stock[last.pk] = before - q
             /\ before < q => db.stock[last.pk] = before
             /\ \A i \in ItemIds \ {last.pk} : db.stock[i] = last.pre.stock[i]

C17_Witness ==
    /\ last.op = "log_usage" /\ last.quantity = <<2>>
    /\ last.pre.stock[last.pk] = 1 /\ db.stock[last.pk] = 1
    /\ Len(db.usage) = 2 /\ db.usage[1].quantity_used = 1

\* C18: every item has at most one stored ItemSupplier link with is_primary
\* set; a save with is_primary set leaves no other primary link on that item,
\* and no save changes a link of another item.
PrimaryLinks(links, item) ==
    {k \in LinkIds : links[k].saved /\ links[k].item = item /\ links[k].is_primary}

C18_AtMostOnePrimaryPerItem ==
    /\ \A i \in ItemIds : Cardinality(PrimaryLinks(db.links, i)) <= 1
    /\ last.op = "save_link" =>
          /\ last.is_primary => PrimaryLinks(db.links, last.item) = {last.pk}
          /\ \A k \in LinkIds \ {last.pk} :
                last.pre.links[k].item # last.item => db.links[k] = last.pre.links[k]

C18_Witness ==
    /\ last.op = "save_link" /\ last.is_primary /\ last.pk = 2 /\ last.item = "A"
    /\ last.pre.links[1] = [saved |-> TRUE, item |-> "A", is_primary |-> TRUE]
    /\ db.links[1] = [saved |-> TRUE, item |-> "A", is_primary |-> FALSE]
    /\ db.links[3] = [saved |-> TRUE, item |-> "B", is_primary |-> TRUE]

\* C19: no line item's quantity_received ever exceeds its quantity_ordered,
\* however scan_barcode requests interleave, and a scan whose quantity exceeds
\* what is pending on the line when the request reads it is answered 400 and
\* changes no stored row.
ReceivedWithinOrdered ==
    \A l \in LineIds : db.received[l] <= LineRow(l).quantity_ordered

ExcessScanRejected ==
    \A t \in Threads :
        (/\ req[t].pc = "find"
         /\ req'[t] # req[t]
         /\ \E l \in LineIds :
               /\ MatchingItems(req[t].upc) = {l}
               /\ req[t].quantity > LineRow(l).quantity_ordered - db.received[l])
        => /\ req'[t].pc = "idle"
           /\ last'.op = "scan_barcode" /\ last'.t = t /\ last'.code = 400
           /\ db' = db

C19_ReceivedNeverExceedsOrdered ==
    []ReceivedWithinOrdered /\ [][ExcessScanRejected]_vars

\* Two requests for the same line, both past the quantity test on a row read
\* before either committed, and together above what was ordered.
C19_Witness ==
    /\ req[1].pc = "commit" /\ req[2].pc = "commit"
    /\ req[1].line = 1 /\ req[2].line = 1
    /\ req[1].read + req[1].quantity + req[2].quantity > LineRow(1).quantity_ordered
    /\ last.op = "scan_barcode" /\ last.code = 400

\* C20: after a successful scan the order's status is RECEIVED exactly when
\* every line has quantity_received >= quantity_ordered, and
\* PARTIALLY_RECEIVED otherwise; a scan that arrives for an order that is
\* RECEIVED is rejected, and no scan changes a row of a RECEIVED order.
StatusFollowsLines ==
    (last.op = "scan_barcode" /\ last.code = 200) =>
        /\ db.po_status = "received" <=>
              \A l \in LineIds : db.received[l] >= LineRow(l).quantity_ordered
        /\ db.po_status \in {"received", "partially_received"}

ReceivedOrderRejectsScans ==
    (last.op = "scan_barcode" /\ last.pre_status = "received") => last.code = 400

ReceivedOrderIsFinal == db.po_status = "received" => db' = db

C21_RequestStockedAtMostOnce ==
    /\ \A r \in ReorderIds : db.stock[ReorderRow(r).item] <= ReorderRow(r).quantity
    /\ (/\ last.op = "mark_received"
        /\ last.pre.reorders[last.pk].status \in {"received", "cancelled"})
       => db.stock = last.pre.stock

\* C22: send_to_supplier succeeds exactly on a DRAFT order, which becomes SENT
\* with sent_by and sent_at set; confirm_order succeeds exactly on a SENT order,
\* which becomes CONFIRMED; on any other status each answers 400 and leaves the
\* order as it was. So an order is only CONFIRMED from SENT, and every SENT or
\* CONFIRMED order has sent_at set.
SendAndConfirmGuarded ==
    /\ last.op = "send_to_supplier" =>
          IF last.pre.po_status = "draft"
          THEN /\ last.code = 200 /\ db.po_status = "sent"
               /\ db.po_sent_by \in Users /\ db.po_sent_at # NoDate
          ELSE last.code = 400 /\ db = last.pre
    /\ last.op = "confirm_order" =>
          IF last.pre.po_status = "sent"
          THEN last.code = 200 /\ db.po_status = "confirmed"
          ELSE last.code = 400 /\ db = last.pre
    /\ db.po_status \in {"sent", "confirmed"} => db.po_sent_at # NoDate

ConfirmedOnlyFromSent ==
    (db.po_status # "confirmed" /\ db'.po_status = "confirmed") => db.po_status = "sent"

C22_SendAndConfirmFollowStatus ==
    []SendAndConfirmGuarded /\ [][ConfirmedOnlyFromSent]_vars

C22_Witness ==
    /\ last.op = "send_to_supplier" /\ last.code = 400
    /\ last.pre.po_status = "confirmed" /\ db.po_status = "confirmed"
    /\ db.po_sent_by = "bob" /\ db.po_expected # NoDate

\* C23: every creation ends with an order whose po_number is PO-<year>-<NNNN>,
\* unique, the number one more than the highest number the other orders of the
\* year have (1 for the first).
NumbersOfYear(table, year, pk) ==
    {PyInt(LastDashField(table[i]), 10)[1] :
        i \in {j \in 1..Len(table) : j # pk /\ StartsWith(table[j], PoPrefix(year))}}

HighestOfYear(table, year, pk) ==
    LET nums == NumbersOfYear(table, year, pk)
    IN  IF nums = {} THEN 0 ELSE CHOOSE n \in nums : \A m \in nums : m <= n

C23_OrderGetsNextPoNumber ==
    last.op = "create_order" =>
        /\ last.code = 201
        /\ db.po[last.pk] = PoNumber(ThisYear, HighestOfYear(db.po, ThisYear, last.pk) + 1)
        /\ \A i \in 1..Len(db.po) : i # last.pk => db.po[i] # db.po[last.pk]

\* C24: in every reachable state a line item's quantity_received equals the sum
\* of the quantities of its DeliveryItems.
C24_ReceivedEqualsDeliveryItems ==
    \A l \in LineIds : db.received[l] = db.delivered[l]

\* C25: on a DETAILED card the QR square and the CTA badge rectangle lie inside
\* the card's bounding box and do not overlap each other, for every title height
\* and with or without a category.
InsideCard(c, pos) ==
    /\ Position(pos).x <= c.x /\ c.x + c.w <= Position(pos).x + CARD_WIDTH
    /\ Position(pos).y <= c.y /\ c.y + c.h <= Position(pos).y + CARD_HEIGHT

Disjoint(c, d) ==
    \/ c.x + c.w <= d.x \/ d.x + d.w <= c.x
    \/ c.y + c.h <= d.y \/ d.y + d.h <= c.y

C25_QrAndCtaInsideCardDisjoint ==
    (res # <<>> /\ ~arg.blank) =>
        LET cmds == res[1] IN
        \A i \in CmdsOfKind(cmds, "qr"), j \in CmdsOfKind(cmds, "cta") :
            /\ InsideCard(cmds[i], arg.pos) /\ InsideCard(cmds[j], arg.pos)
            /\ Disjoint(cmds[i], cmds[j])

\* C26: when render_batch_to_storage gets its path P back from the storage, a
\* file exists at P, P ends with the normalized requested filename and the file
\* holds the PDF of that call, whatever another batch generation with the same
\* filename does in between.
SavedAsRequested(t) ==
    (call[t].pc = "store" /\ call'[t].pc = "done") =>
        /\ call'[t].path \in DOMAIN storage'
        /\ EndsWith(call'[t].path, BatchName(call[t].filename, call[t].blank))
        /\ storage'[call'[t].path] = call[t].pages

C26_BatchFileSavedAsRequested == [][\A t \in Threads : SavedAsRequested(t)]_vars

\* C27: on a DETAILED card of an item with a category, the QR code has a frame
\* iff the category colour is set and judged light by the contrast rule, and the
\* category label is in the category colour iff the colour is set and judged
\* dark, else gray; so no card has both a frame and a category-coloured label.
JudgedLight(item) == GetContrastTextColor(CategoryColorOrDefault(item)) = "black"

InCategoryColour(c, item) ==
    LET parsed == HexColor(Strip(item.color)) IN parsed # <<>> /\ c.color = parsed[1]

C27_FrameIffLightLabelIffDark ==
    (res # <<>> /\ ~arg.blank /\ arg.item.hasCategory) =>
        LET cmds == res[1]
            set == arg.item.color # <<>>
        IN /\ (CmdsOfKind(cmds, "frame") # {}) <=> (set /\ JudgedLight(arg.item))
           /\ \A i \in CmdsOfKind(cmds, "category") :
                 IF set /\ ~JudgedLight(arg.item)
                 THEN InCategoryColour(cmds[i], arg.item)
                 ELSE cmds[i].color = Gray
           /\ ~(/\ CmdsOfKind(cmds, "frame") # {}
                /\ \E i \in CmdsOfKind(cmds, "category") : InCategoryColour(cmds[i], arg.item))

\* C28: the colour of the CTA text is the contrast-rule colour of the colour the
\* badge is filled with: black iff the fill's luminance is above 0.5, else white.
FillIsLight(color) ==
    LuminanceAboveHalf(color \div 65536, (color \div 256) % 256, color % 256)

C28_CtaTextContrastsFill ==
    (res # <<>> /\ ~arg.blank) =>
        LET cmds == res[1] IN
        \A i \in CmdsOfKind(cmds, "cta"), j \in CmdsOfKind(cmds, "ctaText") :
            cmds[j].color = IF FillIsLight(cmds[i].color) THEN Black ELSE White

\* C29: _wrap_text keeps the content: the returned lines joined by single
\* spaces are the words of the text in order, separated by single spaces; no
\* line is empty; a text that is empty or only whitespace gives no lines.
RECURSIVE JoinSpace(_)
JoinSpace(lines) ==
    IF lines = <<>> THEN <<>>
    ELSE IF Len(lines) = 1 THEN lines[1]
    ELSE lines[1] \o <<" ">> \o JoinSpace(Tail(lines))

\* The positions of the text that remain when leading and trailing whitespace
\* is dropped and every run of whitespace is cut down to its first character.
KeptPositions(text) ==
    {i \in 1..Len(text) :
        \/ ~IsSpace(text[i])
        \/ /\ i > 1 /\ ~IsSpace(text[i - 1])
           /\ \E k \in (i + 1)..Len(text) : ~IsSpace(text[k])}

WordsSingleSpaced(text) ==
    LET kept == KeptPositions(text) IN
    [n \in 1..Cardinality(kept) |->
        LET i == CHOOSE j \in kept : Cardinality({k \in kept : k <= j}) = n
        IN  IF IsSpace(text[i]) THEN " " ELSE text[i]]

C29_WrapTextKeepsWords ==
    res # <<>> =>
        /\ JoinSpace(res[1]) = WordsSingleSpaced(arg.text)
        /\ \A i \in DOMAIN res[1] : res[1][i] # <<>>
        /\ (\A i \in DOMAIN arg.text : IsSpace(arg.text[i])) => res[1] = <<>>

C29_Witness ==
    /\ res # <<>> /\ Len(res[1]) = 2
    /\ \E i \in DOMAIN res[1] : HasSpace(res[1][i])
    /\ Len(JoinSpace(res[1])) < Len(arg.text)

\* C30: with base the greatest of minimum_stock - current_stock,
\* reorder_quantity and 0, _calculate_optimal_quantity returns the smallest
\* multiple of quantity_per_package that is at least base when
\* quantity_per_package > 1, and base otherwise; the result is never below
\* reorder_quantity nor the shortage, and is less than one package above base.
BaseQuantity(item) ==
    CHOOSE b \in {item.minimum_stock - item.current_stock, item.reorder_quantity, 0} :
        \A x \in {item.minimum_stock - item.current_stock, item.reorder_quantity, 0} : x <= b

C30_OptimalQuantityRoundsUpToPackage ==
    res # <<>> =>
        LET base == BaseQuantity(arg.item)
            package == arg.supplier.quantity_per_package
        IN /\ IF package > 1
              THEN /\ \E n \in 0..(base + 1) : res[1] = n * package
                   /\ res[1] >= base
                   /\ res[1] - package < base
              ELSE res[1] = base
           /\ res[1] >= arg.item.reorder_quantity
           /\ res[1] >= arg.item.minimum_stock - arg.item.current_stock

C30_Witness ==
    /\ res # <<>>
    /\ arg.supplier.quantity_per_package = 3
    /\ arg.item.minimum_stock - arg.item.current_stock = 4
    /\ arg.item.reorder_quantity = 2
    /\ res[1] = 6

====
